---- MODULE Spec2Model ----
(***************************************************************************)
(* Model of the DevOps GPT frontend: the App component (session state      *)
(* machine: transcript, loading flag, active tab, drafts) and the calls it *)
(* makes to the API client of services/api.ts.                             *)
(*                                                                         *)
(* Strings are sequences of tokens: a typed character is a one-character   *)
(* token, a string literal of the source is one token.  Each event handler *)
(* runs to completion on the event loop, so each is one action.  A click on *)
(* a disabled button dispatches no handler and is a step that changes      *)
(* nothing.  The output of console.log is not part of the state.           *)
(***************************************************************************)
EXTENDS Integers, Sequences, FiniteSets

\* ---------------------------------------------------------------- bounds
\* Most messages the transcript may hold (caps the submissions).
MaxMsgs == 5
\* Milliseconds the clock may run past a multiple of the timeout delay.
MaxJitter == 1
\* Value of Date.now() when the session starts.
T0 == 5000

\* ------------------------------------------------------ program constants
\* Delay of the simulated reply, setTimeout(..., 1000).
TimeoutDelay == 1000

\* The clock runs for one timeout delay and the jitter around it.
MaxClock == T0 + TimeoutDelay + MaxJitter

\* tabs: the ids of the five navigation tabs.
tabs == <<"chat", "suggestions", "monitoring", "testing", "settings">>

TabIds == {tabs[i] : i \in 1..Len(tabs)}

GreetingText ==
  <<"Hello! I'm your DevOps GPT assistant. I can help you analyze your codebase, suggest improvements, and answer questions about your infrastructure. Upload a repository or ask me anything!">>

ReplyText ==
  <<"I'm analyzing your request. This is a demo response - in the real app, this would connect to your LangChain backend.">>

AnnouncePrefix == <<"Analyzing repository: ">>

\* ------------------------------------------------------------ user inputs
\* Values the user may give the chat textarea.
InputTexts == {<<>>, <<" ">>, <<" ", "a">>}
\* Values the user may give the repository URL input.
RepoUrls == {<<>>, <<" ">>, <<"u", " ">>}
\* File selections the user may make in the file input (FileList of names).
FileLists == {<<>>, <<"x.zip", "y.tar.gz">>}
\* Keys the user may press in the chat textarea.
Keys == {"Enter", "a"}

\* ------------------------------------------------------- pure functions
IsSpace(c) == c = " "

RECURSIVE TrimStart(_)
TrimStart(s) ==
  IF s = <<>> THEN <<>>
  ELSE IF IsSpace(Head(s)) THEN TrimStart(Tail(s)) ELSE s

RECURSIVE TrimEnd(_)
TrimEnd(s) ==
  IF s = <<>> THEN <<>>
  ELSE IF IsSpace(s[Len(s)]) THEN TrimEnd(SubSeq(s, 1, Len(s) - 1)) ELSE s

\* String.prototype.trim
Trim(s) == TrimEnd(TrimStart(s))

\* Truthiness of a string: the empty string is falsy.
Truthy(s) == s # <<>>

\* Number.prototype.toString for a natural number: its decimal digits.
RECURSIVE ToString(_)
ToString(n) ==
  IF n < 10 THEN <<n>> ELSE Append(ToString(n \div 10), n % 10)

\* ---------------------------------------------------------------- state
VARIABLES
  activeTab,   \* useState('chat')
  messages,    \* useState<Message[]>: the transcript
  inputText,   \* useState(''): the chat input draft
  isLoading,   \* useState(false): pendingRequest
  repoUrl,     \* useState(''): the repository URL draft
  timers,      \* due times of the pending setTimeout callbacks, in order
  now,         \* Date.now()
  fileInput,   \* files of the <input type="file"> element
  requests,    \* calls made to the API client (services/api.ts)
  http,        \* HTTP requests issued through the axios instance `api`
  outcomes,    \* per call: pending, the value returned or the error thrown
  console      \* lines written by console.error in the interceptor

\* The state of the API client.
apiVars == <<requests, http, outcomes, console>>

\* The state of the App component.
appVars == <<activeTab, messages, inputText, isLoading, repoUrl, timers, now,
             fileInput>>

vars == <<appVars, apiVars>>

Greeting ==
  [id |-> <<1>>, text |-> GreetingText, sender |-> "bot", timestamp |-> T0]

\* Mutant of Init: the session starts with the loading flag set.
Init_Loading ==
  /\ activeTab = "chat"
  /\ messages = <<Greeting>>
  /\ inputText = <<>>
  /\ isLoading = TRUE
  /\ repoUrl = <<>>
  /\ timers = <<>>
  /\ now = T0
  /\ fileInput = <<>>
  /\ requests = <<>>
  /\ http = <<>>
  /\ outcomes = <<>>
  /\ console = <<>>

Init ==
  /\ activeTab = "chat"
  /\ messages = <<Greeting>>
  /\ inputText = <<>>
  /\ isLoading = FALSE
  /\ repoUrl = <<>>
  /\ timers = <<>>
  /\ now = T0
  /\ fileInput = <<>>
  /\ requests = <<>>
  /\ http = <<>>
  /\ outcomes = <<>>
  /\ console = <<>>

\* The transcript and the pending callbacks leave room for k more messages.
Room(k) == Len(messages) + Len(timers) + k <= MaxMsgs

\* ------------------------------------------------------------- messages
\* Mutant of UserMessage: the text is trimmed before it is stored.
UserMessage_Trimmed ==
  [id |-> ToString(now), text |-> Trim(inputText), sender |-> "user",
   timestamp |-> now]

UserMessage ==
  [id |-> ToString(now), text |-> inputText, sender |-> "user",
   timestamp |-> now]

BotMessage ==
  [id |-> ToString(now + 1), text |-> ReplyText, sender |-> "bot",
   timestamp |-> now]

\* Mutant of AnnounceMessage: the URL is trimmed before it is announced.
AnnounceMessage_Trimmed ==
  [id |-> ToString(now), text |-> AnnouncePrefix \o Trim(repoUrl),
   sender |-> "bot", timestamp |-> now]

AnnounceMessage ==
  [id |-> ToString(now), text |-> AnnouncePrefix \o repoUrl,
   sender |-> "bot", timestamp |-> now]

\* ------------------------------------------------------------- handlers
\* Mutant of SendReturnsEarly: the draft is tested without trim().
SendReturnsEarly_NoTrim == ~Truthy(inputText)

\* if (!inputText.trim()) return
SendReturnsEarly == ~Truthy(Trim(inputText))

\* Mutant of handleSendMessage: the reply callback is never scheduled.
handleSendMessage_NoTimer ==
  IF SendReturnsEarly
  THEN UNCHANGED <<messages, inputText, isLoading, timers>>
  ELSE /\ messages' = Append(messages, UserMessage)
       /\ inputText' = <<>>
       /\ isLoading' = TRUE
       /\ timers' = timers

\* Mutant of handleSendMessage: setInputText('') is forgotten.
handleSendMessage_KeepsDraft ==
  IF SendReturnsEarly
  THEN UNCHANGED <<messages, inputText, isLoading, timers>>
  ELSE /\ messages' = Append(messages, UserMessage)
       /\ inputText' = inputText
       /\ isLoading' = TRUE
       /\ timers' = Append(timers, now + TimeoutDelay)

\* Mutant of handleSendMessage: the reply callback is scheduled twice.
handleSendMessage_TwoTimers ==
  IF SendReturnsEarly
  THEN UNCHANGED <<messages, inputText, isLoading, timers>>
  ELSE /\ messages' = Append(messages, UserMessage)
       /\ inputText' = <<>>
       /\ isLoading' = TRUE
       /\ timers' = timers \o <<now + TimeoutDelay, now + TimeoutDelay>>

\* handleSendMessage, up to the setTimeout call.
handleSendMessage ==
  IF SendReturnsEarly
  THEN UNCHANGED <<messages, inputText, isLoading, timers>>
  ELSE /\ messages' = Append(messages, UserMessage)
       /\ inputText' = <<>>
       /\ isLoading' = TRUE
       /\ timers' = Append(timers, now + TimeoutDelay)

\* Mutant of TimeoutCallback: setIsLoading(false) is forgotten.
TimeoutCallback_KeepsLoading ==
  /\ timers # <<>>
  /\ Head(timers) <= now
  /\ timers' = Tail(timers)
  /\ messages' = Append(messages, BotMessage)
  /\ UNCHANGED <<activeTab, inputText, isLoading, repoUrl, now, fileInput,
                 apiVars>>

\* The callback given to setTimeout by handleSendMessage.
TimeoutCallback ==
  /\ timers # <<>>
  /\ Head(timers) <= now
  /\ timers' = Tail(timers)
  /\ messages' = Append(messages, BotMessage)
  /\ isLoading' = FALSE
  /\ UNCHANGED <<activeTab, inputText, repoUrl, now, fileInput, apiVars>>

\* A chat submission would fire from the current state.
WouldSend == ~SendReturnsEarly

\* disabled={!inputText.trim() || isLoading} of the send button.
SendDisabled == ~Truthy(Trim(inputText)) \/ isLoading

\* onKeyPress of the chat textarea: handleKeyPress.
handleKeyPress(key, shiftKey) ==
  /\ activeTab = "chat"
  /\ IF key = "Enter" /\ ~shiftKey
     THEN /\ WouldSend => (Room(2) /\ now + TimeoutDelay <= MaxClock)
          /\ handleSendMessage
     ELSE UNCHANGED <<messages, inputText, isLoading, timers>>
  /\ UNCHANGED <<activeTab, repoUrl, now, fileInput, apiVars>>

\* A click on the send button: onClick={handleSendMessage} unless disabled.
ClickSend ==
  /\ activeTab = "chat"
  /\ IF SendDisabled
     THEN UNCHANGED <<messages, inputText, isLoading, timers>>
     ELSE /\ Room(2)
          /\ now + TimeoutDelay <= MaxClock
          /\ handleSendMessage
  /\ UNCHANGED <<activeTab, repoUrl, now, fileInput, apiVars>>

\* onChange of the chat textarea.
ChangeInput(v) ==
  /\ activeTab = "chat"
  /\ inputText' = v
  /\ UNCHANGED <<activeTab, messages, isLoading, repoUrl, timers, now,
                 fileInput, apiVars>>

\* Mutant of ClickTab: the tabs are disabled while a reply is awaited.
ClickTab_WhenIdle(t) ==
  /\ ~isLoading
  /\ activeTab' = t
  /\ UNCHANGED <<messages, inputText, isLoading, repoUrl, timers, now,
                 fileInput, apiVars>>

\* onClick of a navigation tab.
ClickTab(t) ==
  /\ activeTab' = t
  /\ UNCHANGED <<messages, inputText, isLoading, repoUrl, timers, now,
                 fileInput, apiVars>>

\* onChange of the repository URL input.
ChangeRepoUrl(v) ==
  /\ repoUrl' = v
  /\ UNCHANGED <<activeTab, messages, inputText, isLoading, timers, now,
                 fileInput, apiVars>>

\* if (repoUrl.trim())
RepoAccepted == Truthy(Trim(repoUrl))

\* Mutant of handleRepoSubmit: the announcement is put in front of the
\* transcript, [message, ...prev].
handleRepoSubmit_Prepends ==
  IF RepoAccepted
  THEN messages' = <<AnnounceMessage>> \o messages
  ELSE UNCHANGED messages

handleRepoSubmit ==
  IF RepoAccepted
  THEN messages' = Append(messages, AnnounceMessage)
  ELSE UNCHANGED messages

\* Mutant of ConnectDisabled: Connect is also disabled while loading.
ConnectDisabled_WhileLoading == ~Truthy(Trim(repoUrl)) \/ isLoading

\* disabled={!repoUrl.trim()} of the Connect button.
ConnectDisabled == ~Truthy(Trim(repoUrl))

\* A click on the Connect button: onClick={handleRepoSubmit} unless disabled.
ClickConnect ==
  /\ IF ConnectDisabled
     THEN UNCHANGED messages
     ELSE Room(1) /\ handleRepoSubmit
  /\ UNCHANGED <<activeTab, inputText, isLoading, repoUrl, timers, now,
                 fileInput, apiVars>>

\* onChange of the file input, after the user selected `files`:
\* handleFileUpload reads e.target.files[0] and, when there is one, writes
\* its name to the console; it changes no state and makes no API call.
handleFileUpload(files) ==
  /\ fileInput' = files
  /\ UNCHANGED <<activeTab, messages, inputText, isLoading, repoUrl, timers,
                 now, apiVars>>

\* Time passes: by one millisecond or by one timeout delay.
Tick(d) ==
  /\ now + d <= MaxClock
  /\ d = 1 => (now + 1 - T0) % TimeoutDelay <= MaxJitter
  /\ now' = now + d
  /\ UNCHANGED <<activeTab, messages, inputText, isLoading, repoUrl, timers,
                 fileInput, apiVars>>

KeyPress == \E key \in Keys, shiftKey \in BOOLEAN : handleKeyPress(key, shiftKey)
TypeInput == \E v \in InputTexts : ChangeInput(v)
SwitchTab == \E t \in TabIds : ClickTab(t)
TypeRepoUrl == \E v \in RepoUrls : ChangeRepoUrl(v)
SelectFiles == \E files \in FileLists : handleFileUpload(files)
TimePasses == \E d \in {1, TimeoutDelay} : Tick(d)

Next ==
  \/ KeyPress
  \/ ClickSend
  \/ TypeInput
  \/ TimeoutCallback
  \/ SwitchTab
  \/ TypeRepoUrl
  \/ ClickConnect
  \/ SelectFiles
  \/ TimePasses

Spec == Init /\ [][Next]_vars

\* The event loop runs a timeout callback once it is due, and time passes.
FairSpec == Spec /\ WF_vars(TimeoutCallback) /\ WF_vars(TimePasses)

\* =============================================================== API client
\* The client of services/api.ts.  A call runs up to its await, where the
\* HTTP request is issued; the transport then answers it with a response or
\* an error, which passes the response interceptor before the call returns
\* or throws.  Calls are asynchronous: several may be awaiting an answer.

\* const API_BASE_URL = '/api'
API_BASE_URL == "/api"

\* The default Content-Type header of the axios instance.
JsonContentType == "application/json"

\* ------------------------------------------------------------ bounds
\* Most calls made to the client.
MaxCalls == 2

\* ------------------------------------------------------- caller's inputs
\* Chat messages and repository URLs the caller may pass.
ApiTexts == {<<"a">>}
\* File sequences the caller may pass to uploadFiles.
ApiFiles == {<<>>, <<"x">>, <<"x", "y">>, <<"y", "x">>, <<"x", "x">>}
\* type of generateTestScripts / of generateMonitoringConfig.
TestTypes == {"selenium", "pytest", "testng"}
MonitoringTypes == {"prometheus", "grafana"}
\* Values the transport may give response.data.
ResponseDatas ==
  {[script |-> "s1", config |-> "c1"], [script |-> "s2", config |-> "c2"]}
\* Errors the transport may reject a request with.
TransportErrors ==
  {[status |-> 0, message |-> "Network Error"],
   [status |-> 500, message |-> "Request failed with status code 500"]}

\* The calls the caller may make: operation and argument.
ApiCalls ==
  {[op |-> "sendMessage", arg |-> m] : m \in ApiTexts}
  \cup {[op |-> "getHistory", arg |-> <<>>]}
  \cup {[op |-> "analyzeRepository", arg |-> u] : u \in ApiTexts}
  \cup {[op |-> "uploadFiles", arg |-> f] : f \in ApiFiles}
  \cup {[op |-> "getSuggestions", arg |-> <<>>]}
  \cup {[op |-> "generateTestScripts", arg |-> t] : t \in TestTypes}
  \cup {[op |-> "generateMonitoringConfig", arg |-> t] :
          t \in MonitoringTypes}

\* --------------------------------------------------------------- FormData
\* Mutant of FormDataAppend: FormData.set, which replaces the entries of
\* the same name.
FormDataAppend_Set(formData, name, value) ==
  SelectSeq(formData, LAMBDA e : e.name # name)
    \o <<[name |-> name, value |-> value]>>

\* FormData.append(name, value)
FormDataAppend(formData, name, value) ==
  Append(formData, [name |-> name, value |-> value])

\* files.forEach(file => formData.append('files', file))
RECURSIVE ForEachAppendFile(_, _)
ForEachAppendFile(files, formData) ==
  IF files = <<>> THEN formData
  ELSE ForEachAppendFile(Tail(files),
                         FormDataAppend(formData, "files", Head(files)))

\* The FormData that uploadFiles builds from its files.
UploadFormData(files) == ForEachAppendFile(files, <<>>)

\* ------------------------------------------------------------ operations
\* api.get / api.post: the request as it leaves the axios instance.
ApiRequest(method, url, data, contentType) ==
  [method |-> method, url |-> API_BASE_URL \o url, data |-> data,
   contentType |-> contentType]

\* The one api.get / api.post call in the body of each operation.
RequestOf(call) ==
  CASE call.op = "sendMessage" ->
         ApiRequest("POST", "/chat", <<"message", call.arg>>,
                    JsonContentType)
    [] call.op = "getHistory" ->
         ApiRequest("GET", "/chat/history", <<>>, JsonContentType)
    [] call.op = "analyzeRepository" ->
         ApiRequest("POST", "/repository/analyze",
                    <<"repository_url", call.arg>>, JsonContentType)
    [] call.op = "uploadFiles" ->
         ApiRequest("POST", "/repository/upload", UploadFormData(call.arg),
                    "multipart/form-data")
    [] call.op = "getSuggestions" ->
         ApiRequest("GET", "/suggestions", <<>>, JsonContentType)
    [] call.op = "generateTestScripts" ->
         ApiRequest("POST", "/suggestions/generate-tests",
                    <<"type", call.arg>>, JsonContentType)
    [] call.op = "generateMonitoringConfig" ->
         ApiRequest("POST", "/suggestions/generate-monitoring",
                    <<"type", call.arg>>, JsonContentType)

\* The return statement of each operation.
ReturnOf(call, response) ==
  CASE call.op = "generateTestScripts" -> response.data.script
    [] call.op = "generateMonitoringConfig" -> response.data.config
    [] OTHER -> response.data

\* ------------------------------------------------- response interceptor
\* (response) => response
OnFulfilled(response) == response

\* console.error('API Error:', error)
OnRejectedLog(error) == <<"API Error:", error>>

\* Mutant of OnRejectedThrow: a new error with a generic message is thrown.
OnRejectedThrow_Wrapped(error) ==
  [status |-> error.status, message |-> "API Error"]

\* throw error
OnRejectedThrow(error) == error

Pending == [kind |-> "pending"]

\* The caller calls an operation, which runs up to its await.
CallApi(call) ==
  /\ Len(requests) < MaxCalls
  /\ requests' = Append(requests, call)
  /\ http' = Append(http, RequestOf(call))
  /\ outcomes' = Append(outcomes, Pending)
  /\ UNCHANGED <<console, appVars>>

\* The transport answers call i with a 2xx response: the response passes
\* the interceptor and the operation returns.
ResponseArrives(i, data) ==
  /\ outcomes[i] = Pending
  /\ LET response == OnFulfilled([status |-> 200, data |-> data])
     IN  outcomes' = [outcomes EXCEPT ![i] =
                        [kind |-> "returned",
                         value |-> ReturnOf(requests[i], response)]]
  /\ UNCHANGED <<requests, http, console, appVars>>

\* The transport rejects call i: the interceptor logs the error and
\* rethrows it, and the awaiting operation throws what it caught.
ErrorArrives(i, error) ==
  /\ outcomes[i] = Pending
  /\ console' = Append(console, OnRejectedLog(error))
  /\ outcomes' = [outcomes EXCEPT ![i] =
                    [kind |-> "threw", value |-> OnRejectedThrow(error)]]
  /\ UNCHANGED <<requests, http, appVars>>

Calls == \E call \in ApiCalls : CallApi(call)
Responses ==
  \E i \in 1..Len(requests), data \in ResponseDatas : ResponseArrives(i, data)
Errors ==
  \E i \in 1..Len(requests), error \in TransportErrors :
    ErrorArrives(i, error)

NextApi ==
  \/ Calls
  \/ Responses
  \/ Errors

\* The API client driven by an arbitrary caller.
SpecApi == Init /\ [][NextApi]_vars

TypeOK ==
  /\ activeTab \in TabIds
  /\ inputText \in InputTexts
  /\ repoUrl \in RepoUrls
  /\ isLoading \in BOOLEAN
  /\ Len(messages) <= MaxMsgs
  /\ now \in T0..MaxClock
  /\ fileInput \in FileLists
  /\ requests = <<>>

\* ------------------------------------------------- vocabulary of the claims
\* A text is blank when it is empty or holds only whitespace.
IsBlank(s) == \A i \in 1..Len(s) : s[i] = " "

LastMessage == messages[Len(messages)]

\* The step dispatches Enter (without Shift) to the chat textarea.
EnterPressed == handleKeyPress("Enter", FALSE)

\* The step is a chat submission that fires: Enter in the textarea, or a
\* click on the enabled send button, with a non-blank draft.
ChatSubmissionFires ==
  /\ ~IsBlank(inputText)
  /\ EnterPressed \/ (~isLoading /\ ClickSend)

\* The step is a chat submission attempted with a blank draft.
BlankChatSubmission == IsBlank(inputText) /\ (EnterPressed \/ ClickSend)

\* The step is a click on Connect with a blank / non-blank URL draft.
BlankRepoSubmission == IsBlank(repoUrl) /\ ClickConnect
RepoSubmissionFires == ~IsBlank(repoUrl) /\ ClickConnect

\* The step runs the reply callback of a chat submission.
ReplyResolves == TimeoutCallback

\* Message m announces the analysis of a repository URL.
IsAnnouncement(m) ==
  m.sender = "bot" /\ Head(m.text) = "Analyzing repository: "

\* ------------------------------------------------------------------ claims

\* C1: no chat submission fires while isLoading (pendingRequest) is true,
\* through any submit path, so at most one chat reply is outstanding at a
\* time.
C1_SingleChatInFlight ==
  [][/\ isLoading => Len(timers') <= Len(timers)
     /\ Len(timers') <= 1]_vars

\* C2: isLoading (pendingRequest) is true exactly when a chat submission has
\* fired and its reply has not yet resolved.
C2_LoadingIffOutstanding == isLoading <=> (timers # <<>>)

\* C3: a chat submission with a non-blank draft appends, in the same step
\* and with its reply still outstanding, exactly one message to the end of
\* the transcript: sender user, text the submitted draft; the earlier
\* messages are unchanged.
C3_SubmitAppendsUserMessage ==
  [][ChatSubmissionFires =>
       /\ Len(messages') = Len(messages) + 1
       /\ SubSeq(messages', 1, Len(messages)) = messages
       /\ messages'[Len(messages')].sender = "user"
       /\ messages'[Len(messages')].text = inputText
       /\ Len(timers') = Len(timers) + 1]_vars

C3_Witness ==
  /\ Len(messages) = 2
  /\ LastMessage.sender = "user"
  /\ LastMessage.text = <<" ", "a">>
  /\ inputText = <<>>
  /\ Len(timers) = 1

\* C5: when the reply to a chat submission resolves, exactly one message
\* with sender bot is appended to the end of the transcript and isLoading
\* becomes false; from the initial transcript one submission gives length 2
\* at once and length 3 once its reply has resolved.
C5_ReplyAppendsBotMessage ==
  [][/\ ReplyResolves =>
          /\ Len(messages') = Len(messages) + 1
          /\ SubSeq(messages', 1, Len(messages)) = messages
          /\ messages'[Len(messages')].sender = "bot"
          /\ isLoading' = FALSE
     /\ (Len(messages) = 1 /\ ChatSubmissionFires) => Len(messages') = 2
     /\ (/\ Len(messages) = 2
         /\ messages[2].sender = "user"
         /\ ReplyResolves) =>
          (Len(messages') = 3 /\ isLoading' = FALSE)]_vars

C5_Witness ==
  /\ Len(messages) = 3
  /\ messages[2].sender = "user"
  /\ messages[3].sender = "bot"
  /\ messages[3].text = ReplyText
  /\ timers = <<>>
  /\ ~isLoading

\* C6: submitting a blank or whitespace-only chat draft, or a blank or
\* whitespace-only repository URL, leaves the transcript and isLoading
\* unchanged.
C6_BlankSubmitIsNoOp ==
  [][(BlankChatSubmission \/ BlankRepoSubmission) =>
       UNCHANGED <<messages, isLoading>>]_vars

\* A state in which a whitespace-only draft and URL can be submitted, with a
\* reply outstanding: the blank submissions from it change nothing.
C6_Witness ==
  /\ activeTab = "chat"
  /\ inputText = <<" ">>
  /\ repoUrl = <<" ">>
  /\ isLoading
  /\ ENABLED EnterPressed
  /\ ENABLED ClickConnect

\* C7: a switch to any of the five tabs is enabled in every reachable state
\* and changes only activeTab: the transcript, isLoading and both drafts are
\* unchanged.
C7_TabSwitchFrame ==
  /\ [](\A t \in TabIds : ENABLED ClickTab(t))
  /\ [][SwitchTab =>
          UNCHANGED <<messages, isLoading, inputText, repoUrl, timers,
                      fileInput, apiVars>>]_vars

\* The tab was switched away from chat while a reply was outstanding.
C7_Witness ==
  /\ activeTab = "settings"
  /\ isLoading
  /\ timers # <<>>
  /\ inputText # <<>>

\* C8: submitting a non-blank repository URL appends, in the same step and
\* before any ingestion response, exactly one message to the end of the
\* transcript, with sender bot and a text announcing the submitted URL.
C8_RepoSubmitAnnounces ==
  [][RepoSubmissionFires =>
       /\ Len(messages') = Len(messages) + 1
       /\ SubSeq(messages', 1, Len(messages)) = messages
       /\ messages'[Len(messages')].sender = "bot"
       /\ messages'[Len(messages')].text
            = <<"Analyzing repository: ">> \o repoUrl]_vars

C8_Witness ==
  /\ Len(messages) > 1
  /\ LastMessage.sender = "bot"
  /\ LastMessage.text = <<"Analyzing repository: ", "u", " ">>
  /\ requests = <<>>

\* C9: every submission of a non-blank repository URL invokes repository
\* ingestion (analyzeRepository) for that URL: each announcement in the
\* transcript has its analyzeRepository call.
C9_RepoSubmitInvokesIngestion ==
  \A i \in 1..Len(messages) :
    IsAnnouncement(messages[i]) =>
      \E j \in 1..Len(requests) :
        requests[j] = [op |-> "analyzeRepository",
                       arg |-> Tail(messages[i].text)]

\* C10: selecting a non-empty set of files invokes ingestion (uploadFiles)
\* at once with exactly the selected files.
C10_FileSelectionInvokesUpload ==
  fileInput # <<>> =>
    /\ requests # <<>>
    /\ requests[Len(requests)] = [op |-> "uploadFiles", arg |-> fileInput]

\* s is a prefix of t.
IsPrefix(s, t) == Len(s) <= Len(t) /\ SubSeq(t, 1, Len(s)) = s

\* C11: the transcript is append-only under every transition and every
\* interleaving: the transcript before a step is a prefix of the transcript
\* after it.
C11_TranscriptAppendOnly == [][IsPrefix(messages, messages')]_vars

\* A chat submission, a repository submission and a reply have interleaved.
C11_Witness ==
  /\ Len(messages) = 4
  /\ messages[1] = Greeting
  /\ messages[2].sender = "user"
  /\ IsAnnouncement(messages[3])
  /\ messages[4].text = ReplyText

\* C12: the initial state has activeTab = chat, isLoading = false, empty
\* chat and repository URL drafts, and a transcript of exactly one message,
\* whose sender is bot.
C12_Initial ==
  /\ activeTab = "chat"
  /\ isLoading = FALSE
  /\ inputText = <<>>
  /\ repoUrl = <<>>
  /\ Len(messages) = 1
  /\ messages[1].sender = "bot"

C12_InitialState == C12_Initial /\ [][TRUE]_vars

C12_Witness ==
  /\ C12_Initial
  /\ messages[1].id = <<1>>
  /\ timers = <<>>
  /\ now = T0

\* C16: in the step in which a chat submission fires, the chat draft becomes
\* empty and isLoading becomes true, while activeTab and the repository URL
\* draft are unchanged.
C16_SubmitClearsDraftSetsBusy ==
  [][ChatSubmissionFires =>
       /\ inputText' = <<>>
       /\ isLoading' = TRUE
       /\ UNCHANGED <<activeTab, repoUrl>>]_vars

C16_Witness ==
  /\ activeTab = "chat"
  /\ LastMessage.sender = "user"
  /\ inputText = <<>>
  /\ isLoading
  /\ repoUrl = <<"u", " ">>
  /\ Len(timers) = 1

\* C17: all messages of the transcript have pairwise distinct ids, whatever
\* the timing of chat submissions, replies and repository submissions.
C17_DistinctIds ==
  \A i, j \in 1..Len(messages) :
    i # j => messages[i].id # messages[j].id

\* Number of user messages / of replies among the first k messages.
NumUser(k) == Cardinality({i \in 1..k : messages[i].sender = "user"})
NumReply(k) ==
  Cardinality({i \in 2..k : /\ messages[i].sender = "bot"
                            /\ ~IsAnnouncement(messages[i])})

\* 1 when the step is an instance of action A, else 0.
Fired(A) == IF A THEN 1 ELSE 0

\* C18: the transcript holds the greeting and one message for each chat
\* submission fired, each reply resolved and each non-blank repository
\* submission fired; the replies never outnumber the chat submissions, in
\* the transcript and in each of its prefixes.
C18_TranscriptAccounting ==
  /\ Len(messages) = 1
  /\ [][Len(messages') = Len(messages) + Fired(ChatSubmissionFires)
                           + Fired(ReplyResolves)
                           + Fired(RepoSubmissionFires)]_vars
  /\ [](\A k \in 1..Len(messages) : NumReply(k) <= NumUser(k))

C18_Witness ==
  /\ Len(messages) = 5
  /\ NumUser(5) = 2
  /\ NumReply(5) = 2
  /\ timers = <<>>

\* C19: submitting a non-blank repository URL is possible whatever
\* isLoading is, and changes only the transcript: isLoading, activeTab and
\* both drafts (the URL draft is not cleared) are unchanged.
C19_RepoSubmitFrame ==
  /\ [](~IsBlank(repoUrl) => ~ConnectDisabled)
  /\ [][RepoSubmissionFires =>
          /\ messages' # messages
          /\ UNCHANGED <<isLoading, activeTab, inputText, repoUrl, timers,
                         fileInput, apiVars>>]_vars

\* The URL was submitted while a reply was outstanding.
C19_Witness ==
  /\ isLoading
  /\ timers # <<>>
  /\ IsAnnouncement(LastMessage)
  /\ repoUrl = <<"u", " ">>
  /\ inputText # <<>>

\* C15: with the reply callback scheduled fairly, every chat submission that
\* fires is eventually followed by its reply in the transcript (the n-th
\* user message leads to the n-th reply), and isLoading, once true,
\* eventually is false again.
C15_ReplyEventuallyArrives ==
  /\ isLoading ~> ~isLoading
  /\ \A n \in 1..(MaxMsgs \div 2) :
       (NumUser(Len(messages)) >= n) ~> (NumReply(Len(messages)) >= n)

\* A reply has arrived, a timeout delay after its submission, while another
\* tab was shown.
C15_Witness ==
  /\ Len(messages) >= 3
  /\ activeTab # "chat"
  /\ messages[2].sender = "user"
  /\ LastMessage.text = ReplyText
  /\ LastMessage.timestamp >= messages[2].timestamp + TimeoutDelay
  /\ timers = <<>>
  /\ ~isLoading

\* C13: every client operation issues exactly one request and never retries:
\* when the request fails, the interceptor logs the error once and the same
\* error is thrown to the caller; when it succeeds, the response passes the
\* interceptor unchanged and no error is logged.
C13_OneRequestNoRetry ==
  /\ [](Len(http) = Len(requests))
  /\ [][\A i \in 1..Len(requests) :
          /\ \A error \in TransportErrors :
               (outcomes'[i].kind = "threw" /\ ErrorArrives(i, error)) =>
                 /\ http' = http
                 /\ console' = Append(console, <<"API Error:", error>>)
                 /\ outcomes'[i] = [kind |-> "threw", value |-> error]
          /\ \A data \in ResponseDatas :
               (outcomes'[i].kind = "returned"
                  /\ ResponseArrives(i, data)) =>
                 /\ http' = http
                 /\ console' = console
                 /\ outcomes'[i].kind = "returned"
                 /\ outcomes'[i].value =
                      CASE requests[i].op = "generateTestScripts" ->
                             data.script
                        [] requests[i].op = "generateMonitoringConfig" ->
                             data.config
                        [] OTHER -> data]_vars

\* One call has failed and one has succeeded.
C13_Witness ==
  /\ Len(requests) = 2
  /\ Len(http) = 2
  /\ outcomes[1].kind = "threw"
  /\ outcomes[2].kind = "returned"
  /\ console = <<<<"API Error:", outcomes[1].value>>>>

\* C14: uploadFiles attaches every input file exactly once under the field
\* name `files`, in the order of the input.
C14_UploadAttachesFilesInOrder ==
  \A i \in 1..Len(requests) :
    requests[i].op = "uploadFiles" =>
      LET files == requests[i].arg
          formData == http[i].data
      IN  /\ Len(formData) = Len(files)
          /\ \A k \in 1..Len(files) :
               formData[k] = [name |-> "files", value |-> files[k]]

C14_Witness ==
  /\ Len(requests) = 2
  /\ requests[1] = [op |-> "uploadFiles", arg |-> <<"y", "x">>]
  /\ requests[2] = [op |-> "uploadFiles", arg |-> <<"x", "x">>]
  /\ http[1].data = <<[name |-> "files", value |-> "y"],
                      [name |-> "files", value |-> "x"]>>
  /\ Len(http[2].data) = 2
====
